---- MODULE Spec2Model ----
(***************************************************************************)
(* Model of the UI regression agent's ticket workflow:                     *)
(*   - the SQLite backed ticket store (mcp_servers/jira.py),               *)
(*   - the orchestrator that applies a classification to the store         *)
(*     (src/orchestrator_agent.py).                                        *)
(* Ticket ids, statuses and comments are strings, as in the program.       *)
(***************************************************************************)
EXTENDS Integers, Sequences, FiniteSets, TLC

VARIABLES
    db,          \* rows of table jira_tickets, in insertion order
    idUnique,    \* whether the table's schema rejects a second row with the same id
    now,         \* logical clock behind datetime.now()
    minorLog,    \* entries of logs/minor_issues.json
    analysis,    \* the analysis dict last handed to execute_actions
    results,     \* what the last execute_actions returned (or the exception it raised)
    applyCount,  \* number of execute_actions runs so far
    opCount,     \* number of direct store operations so far
    dbBefore,    \* the table before the last operation
    dbOnce,      \* the table after the first execute_actions run
    dbStart,     \* the table the behaviour started from
    lastOp,      \* the last store operation and its response
    visionCompletion, \* what complete_vision gives the run: a text or an exception
    textCompletion,   \* what complete_text gives the run: a text or an exception
    differences,      \* the difference list handed to analyze_differences
    outcome,          \* what the last agent call returned or raised
    modelCalls,       \* number of complete_vision / complete_text calls so far
    backlogReads,     \* number of get_all_tickets calls so far
    procs,            \* the concurrent callers of create_ticket: position, number read, response
    cache             \* the model gateway's cache files and the calls made through it

vars == <<db, idUnique, now, minorLog, analysis, results, applyCount, opCount,
          dbBefore, dbOnce, dbStart, lastOp, visionCompletion, textCompletion,
          differences, outcome, modelCalls, backlogReads, procs, cache>>

\* the variables of the concurrent callers and of the model gateway
extraVars == <<procs, cache>>

\* the variables of the model-backed agents
agentVars == <<visionCompletion, textCompletion, differences, outcome,
               modelCalls, backlogReads>>

-----------------------------------------------------------------------------
(* Bounds *)

MaxApplies == 2
MaxOps == 3
MaxList == 2
MaxPieces == 3

-----------------------------------------------------------------------------
(* Python values *)

\* Python's None / SQL NULL
None == "<None>"

\* dict.get(key, default)
Get(d, k, default) == IF k \in DOMAIN d THEN d[k] ELSE default

\* truth value of a dict or a list: empty is false
TruthyDict(d) == DOMAIN d # {}

\* truth value of a str or None
TruthyStr(s) == s # None /\ s # ""

\* `sub in s` for strings
Contains(sub, s) ==
    \E i \in 1..(Len(s) - Len(sub) + 1) : SubSeq(s, i, i + Len(sub) - 1) = sub

\* s.startswith(p) / SQL  s LIKE 'p%'
StartsWith(s, p) == Len(s) >= Len(p) /\ SubSeq(s, 1, Len(p)) = p

\* format spec {n:03d}
Fmt03(n) ==
    IF n < 10 THEN "00" \o ToString(n)
    ELSE IF n < 100 THEN "0" \o ToString(n)
    ELSE ToString(n)

-----------------------------------------------------------------------------
(* constants.py *)

VALID_STATUSES == {"todo", "in_progress", "in_review", "on_hold", "done"}

-----------------------------------------------------------------------------
(* The seeded backlog *)

SeedIds == <<"UI-001", "UI-002", "UI-004", "BE-001">>

SeedTicket(id) ==
    [id |-> id,
     title |-> IF id = "BE-001" THEN "Implement Oauth 2.0" ELSE "Seeded " \o id,
     description |-> "Seeded description",
     status |-> IF id = "BE-001" THEN "in_progress" ELSE "in_review",
     priority |-> "high",
     type |-> "feature",
     created |-> 0,
     updated |-> 0,
     assignee |-> IF id = "BE-001" THEN "backend.dev" ELSE "frontend.dev",
     reporter |-> "product.manager",
     comment |-> None]

\* the rows of the seed at the positions in S, in seed order
RECURSIVE SelectRows(_, _)
SelectRows(i, S) ==
    IF i > Len(SeedIds) THEN <<>>
    ELSE (IF i \in S THEN <<SeedTicket(SeedIds[i])>> ELSE <<>>) \o SelectRows(i + 1, S)

Reverse(s) == [i \in 1..Len(s) |-> s[Len(s) + 1 - i]]

\* every subset of the seed in seed order, and the whole seed in reverse order
InitBacklogs ==
    { SelectRows(1, S) : S \in SUBSET (1..Len(SeedIds)) }
    \cup { Reverse(SelectRows(1, 1..Len(SeedIds))) }

-----------------------------------------------------------------------------
(* mcp_servers/jira.py : the store's tools.  Each takes the table and the   *)
(* clock and yields the new table, the new clock and the returned dict.     *)

HasId(rows, ticket_id) == \E i \in 1..Len(rows) : rows[i].id = ticket_id

update_ticket_status(rows, clock, ticket_id, new_status) ==
    IF ~HasId(rows, ticket_id)
    THEN [db |-> rows, now |-> clock,
          resp |-> [success |-> FALSE,
                    error |-> "Ticket " \o ticket_id \o " not found"]]
    ELSE [db |-> [i \in 1..Len(rows) |->
                    IF rows[i].id = ticket_id
                    THEN [rows[i] EXCEPT !.status = new_status, !.updated = clock + 1]
                    ELSE rows[i]],
          now |-> clock + 1,
          resp |-> [success |-> TRUE, ticket_id |-> ticket_id,
                    new_status |-> new_status, updated |-> clock + 1]]

update_ticket_comment(rows, clock, ticket_id, comment) ==
    IF ~HasId(rows, ticket_id)
    THEN [db |-> rows, now |-> clock + 1,
          resp |-> [success |-> FALSE,
                    error |-> "Ticket " \o ticket_id \o " not found"]]
    ELSE [db |-> [i \in 1..Len(rows) |->
                    IF rows[i].id = ticket_id
                    THEN [rows[i] EXCEPT !.comment = comment, !.updated = clock + 1]
                    ELSE rows[i]],
          now |-> clock + 1,
          resp |-> [success |-> TRUE, ticket_id |-> ticket_id,
                    comment |-> comment, updated |-> clock + 1]]

\* SELECT COUNT(*) FROM jira_tickets WHERE id LIKE 'UI-%'
CountUI(rows) == Cardinality({i \in 1..Len(rows) : StartsWith(rows[i].id, "UI-")})

NextTicketId(rows) == "UI-" \o Fmt03(CountUI(rows) + 1)

\* The INSERT raises, and the tool answers success False, when the table's
\* schema makes id unique and the id is taken; the schema itself is not part
\* of the module, so both kinds of table are considered.
create_ticket(rows, unique, clock, title, description, priority, ticket_type, assignee, reporter, status, comment) ==
    LET ticket_id == NextTicketId(rows)
        timestamp == clock + 1
        row == [id |-> ticket_id, title |-> title, description |-> description,
                status |-> status, priority |-> priority, type |-> ticket_type,
                created |-> timestamp, updated |-> timestamp,
                assignee |-> assignee, reporter |-> reporter, comment |-> comment]
    IN  IF unique /\ HasId(rows, ticket_id)
        THEN [db |-> rows, now |-> timestamp,
              resp |-> [success |-> FALSE, error |-> "Ticket creation failed"]]
        ELSE [db |-> Append(rows, row), now |-> timestamp,
              resp |-> [success |-> TRUE,
                        ticket |-> [id |-> ticket_id, title |-> title,
                                    description |-> description, status |-> status,
                                    priority |-> priority, type |-> ticket_type,
                                    created |-> timestamp, updated |-> timestamp,
                                    assignee |-> assignee, reporter |-> reporter]]]

-----------------------------------------------------------------------------
(* src/orchestrator_agent.py : OrchestratorAgent *)

RECURSIVE update_resolved_tickets(_, _, _, _)
update_resolved_tickets(rows, clock, resolved_tickets, updated_tickets) ==
    IF resolved_tickets = <<>>
    THEN [db |-> rows, now |-> clock, out |-> updated_tickets]
    ELSE LET resolved == Head(resolved_tickets)
             ticket_id == Get(resolved, "ticket_id", None)
         IN  IF TruthyStr(ticket_id)
             THEN LET r == update_ticket_status(rows, clock, ticket_id, "Done")
                  IN  update_resolved_tickets(r.db, r.now, Tail(resolved_tickets),
                          IF TruthyDict(r.resp)
                          THEN Append(updated_tickets, r.resp)
                          ELSE updated_tickets)
             ELSE update_resolved_tickets(rows, clock, Tail(resolved_tickets),
                                          updated_tickets)

\* update_tickets_needing_work writing the comment whatever the status
\* update answered
RECURSIVE update_tickets_needing_work_commenting(_, _, _, _)
update_tickets_needing_work_commenting(rows, clock, tickets_needing_work, updated_tickets) ==
    IF tickets_needing_work = <<>>
    THEN [db |-> rows, now |-> clock, out |-> updated_tickets]
    ELSE LET ticket_info == Head(tickets_needing_work)
             ticket_id == Get(ticket_info, "ticket_id", None)
             r == update_ticket_status(rows, clock, ticket_id, "Changes Requested")
             c == update_ticket_comment(r.db, r.now, ticket_id,
                                        Get(ticket_info, "reason", ""))
         IN  update_tickets_needing_work_commenting(c.db, c.now,
                 Tail(tickets_needing_work), Append(updated_tickets, r.resp))

RECURSIVE update_tickets_needing_work(_, _, _, _)
update_tickets_needing_work(rows, clock, tickets_needing_work, updated_tickets) ==
    IF tickets_needing_work = <<>>
    THEN [db |-> rows, now |-> clock, out |-> updated_tickets]
    ELSE LET ticket_info == Head(tickets_needing_work)
             ticket_id == Get(ticket_info, "ticket_id", None)
         IN  IF TruthyStr(ticket_id)
             THEN LET r == update_ticket_status(rows, clock, ticket_id,
                                                "Changes Requested")
                  IN  update_tickets_needing_work(r.db, r.now,
                          Tail(tickets_needing_work),
                          IF TruthyDict(r.resp)
                          THEN Append(updated_tickets, r.resp)
                          ELSE updated_tickets)
             ELSE update_tickets_needing_work(rows, clock,
                                              Tail(tickets_needing_work),
                                              updated_tickets)

\* The loop stops with raised = "KeyError" at the log line that reads
\* new_ticket['id'] from a response dict that has no such key.
RECURSIVE create_tickets_for_critical_issues(_, _, _, _, _)
create_tickets_for_critical_issues(rows, unique, clock, new_issues, created_tickets) ==
    IF new_issues = <<>>
    THEN [db |-> rows, now |-> clock, out |-> created_tickets, raised |-> None]
    ELSE LET issue == Head(new_issues)
         IN  IF Get(issue, "severity", None) = "critical"
             THEN LET title == Get(issue, "title", "UI Regression Issue")
                      description ==
                          Get(issue, "description",
                              "Critical UI issue detected during regression testing")
                      r == create_ticket(rows, unique, clock, title, description,
                                         "High", "Bug", "auto.assigned@company.com",
                                         "ui.regression.agent@company.com", "Open",
                                         None)
                  IN  IF TruthyDict(r.resp)
                      THEN IF "id" \in DOMAIN r.resp
                           THEN create_tickets_for_critical_issues(r.db, unique, r.now,
                                    Tail(new_issues), Append(created_tickets, r.resp))
                           ELSE [db |-> r.db, now |-> r.now,
                                 out |-> Append(created_tickets, r.resp),
                                 raised |-> "KeyError"]
                      ELSE create_tickets_for_critical_issues(r.db, unique, r.now,
                               Tail(new_issues), created_tickets)
             ELSE create_tickets_for_critical_issues(rows, unique, clock,
                                                     Tail(new_issues), created_tickets)

\* the entries log_minor_issues appends to the minor-issues log
log_minor_issues(new_issues) ==
    LET minor_issues == SelectSeq(new_issues,
                                  LAMBDA issue : Get(issue, "severity", None) = "minor")
    IN  [i \in 1..Len(minor_issues) |->
            [title |-> Get(minor_issues[i], "title", "Minor UI Issue"),
             description |-> Get(minor_issues[i], "description", "Minor issue detected"),
             element_type |-> Get(minor_issues[i], "element_type", "unknown"),
             location |-> Get(minor_issues[i], "location", "unknown"),
             severity |-> "minor"]]

\* execute_actions with its three steps in the opposite order
execute_actions_creating_first(rows, unique, clock, log, a) ==
    LET has_new == Get(a, "new_issues", <<>>) # <<>>
        r3 == IF has_new
              THEN create_tickets_for_critical_issues(rows, unique, clock,
                                                      a["new_issues"], <<>>)
              ELSE [db |-> rows, now |-> clock, out |-> <<>>, raised |-> None]
        r2 == IF Get(a, "tickets_needing_work", <<>>) # <<>>
              THEN update_tickets_needing_work(r3.db, r3.now,
                                               a["tickets_needing_work"], <<>>)
              ELSE [db |-> r3.db, now |-> r3.now, out |-> <<>>]
        r1 == IF Get(a, "resolved_tickets", <<>>) # <<>>
              THEN update_resolved_tickets(r2.db, r2.now, a["resolved_tickets"], <<>>)
              ELSE [db |-> r2.db, now |-> r2.now, out |-> <<>>]
    IN  [db |-> r1.db,
         now |-> r1.now,
         minorLog |-> log,
         results |-> [raised |-> None,
                      resolved_tickets |-> r1.out,
                      updated_tickets |-> r2.out,
                      created_tickets |-> r3.out,
                      minor_issues_logged |-> 0]]

execute_actions(rows, unique, clock, log, a) ==
    LET r1 == IF Get(a, "resolved_tickets", <<>>) # <<>>
              THEN update_resolved_tickets(rows, clock, a["resolved_tickets"], <<>>)
              ELSE [db |-> rows, now |-> clock, out |-> <<>>]
        r2 == IF Get(a, "tickets_needing_work", <<>>) # <<>>
              THEN update_tickets_needing_work(r1.db, r1.now,
                                               a["tickets_needing_work"], <<>>)
              ELSE [db |-> r1.db, now |-> r1.now, out |-> <<>>]
        has_new == Get(a, "new_issues", <<>>) # <<>>
        r3 == IF has_new
              THEN create_tickets_for_critical_issues(r2.db, unique, r2.now,
                                                      a["new_issues"], <<>>)
              ELSE [db |-> r2.db, now |-> r2.now, out |-> <<>>, raised |-> None]
        logged == IF has_new /\ r3.raised = None
                  THEN log_minor_issues(a["new_issues"])
                  ELSE <<>>
    IN  [db |-> r3.db,
         now |-> r3.now,
         minorLog |-> log \o logged,
         results |->
            IF r3.raised # None
            THEN [raised |-> r3.raised]
            ELSE [raised |-> None,
                  resolved_tickets |-> r1.out,
                  updated_tickets |-> r2.out,
                  created_tickets |-> r3.out,
                  minor_issues_logged |-> Len(logged)]]

-----------------------------------------------------------------------------
(* The analysis dicts handed to execute_actions *)

\* two tickets of the workflow, a ticket of another team, an id no ticket has
PartitionIds == {"UI-001", "UI-002", "UI-009", "BE-001"}

Reason(id) ==
    IF id = "UI-001"
    THEN "Forgot Password link added but missing question mark"
    ELSE "Correctly implemented"

TicketEntries == { [ticket_id |-> id, reason |-> Reason(id)] : id \in PartitionIds }

NewCritical ==
    [title |-> "Missing About link in header",
     description |-> "About link is missing from the navigation header",
     severity |-> "critical", priority |-> "high", type |-> "fix",
     assignee |-> "frontend.dev", reporter |-> "ui_regression.agent",
     status |-> "todo"]

NewCriticalBare == [severity |-> "critical"]

NewHigh ==
    [title |-> "Register button now reads Sign Up",
     description |-> "Register button text changed", severity |-> "high"]

NewMinor ==
    [title |-> "Footer spacing changed",
     description |-> "Footer padding differs", severity |-> "minor"]

NewEntries == {NewCritical, NewCriticalBare, NewHigh, NewMinor}

\* sequences of distinct elements of S, of length at most n
DistinctSeqs(S, n) ==
    UNION { { s \in [1..k -> S] : \A i, j \in 1..k : i # j => s[i] # s[j] } : k \in 0..n }

\* The classifier's key names and the key names execute_actions reads.
MkAnalysis(r, p, n, keys) ==
    IF keys = "partition"
    THEN [resolved_tickets |-> r, pending_tickets |-> p, new_tickets |-> n]
    ELSE [resolved_tickets |-> r, tickets_needing_work |-> p, new_issues |-> n]

Analyses ==
    { MkAnalysis(r, p, n, keys) :
        r \in DistinctSeqs(TicketEntries, MaxList),
        p \in DistinctSeqs(TicketEntries, MaxList),
        n \in DistinctSeqs(NewEntries, MaxList),
        keys \in {"partition", "legacy"} }

NoAnalysis == [none |-> TRUE]
NoResults == [none |-> TRUE]
NoOp == [op |-> "none"]

-----------------------------------------------------------------------------
(* Model responses and JSON extraction                                      *)
(* A response text is a sequence of chunks: a brace, a fence marker,       *)
(* whitespace, or a run of characters that holds no brace and no fence.    *)

LBrace == "{"
RBrace == "}"
\* the markers of a fenced block: three backquotes followed by json, and
\* three backquotes alone
FenceJson == "<fence>json"
Fence == "<fence>"
WS == "\n"
Prose == "Here is the result:"
EmptyArray == "[]"
DetailsKey == "\"details\":"

\* JSON values as Python holds them after json.loads
JStr(s) == [t |-> "str", s |-> s]
JList(items) == [t |-> "list", items |-> items]
JDict(d) == [t |-> "dict", d |-> d]

EmptyD == [k \in {} |-> JStr("")]

\* the member lists the model writes between braces: what the vision prompt
\* asks for, its error sentinels, and disposition partitions
MemberLists ==
    [ f \in { "\"differences\":[]", "\"differences\":[\"d1\"]",
              "\"error\":\"IMAGES_TOO_SIMILAR\"", "\"error\":\"INVALID_IMAGE\"",
              "\"error\":\"INVALID_IMAGE_TYPE\"", "\"error\":\"UNKNOWN_ERROR_CODE\"",
              "\"differences\":[\"d1\"],\"error\":\"IMAGES_TOO_SIMILAR\"",
              "\"resolved_tickets\":[],\"pending_tickets\":[],\"new_tickets\":[]",
              "\"resolved_tickets\":[],\"new_tickets\":[]",
              "\"resolved_tickets\":\"UI-001\",\"pending_tickets\":[],\"new_tickets\":[]",
              "\"resolved_tickets\":[],\"pending_tickets\":[],\"new_tickets\":[],\"notes\":\"ok\"" } |->
        CASE f = "\"differences\":[]" -> [differences |-> JList(<<>>)]
          [] f = "\"differences\":[\"d1\"]" -> [differences |-> JList(<<JStr("d1")>>)]
          [] f = "\"error\":\"IMAGES_TOO_SIMILAR\"" -> [error |-> JStr("IMAGES_TOO_SIMILAR")]
          [] f = "\"error\":\"INVALID_IMAGE\"" -> [error |-> JStr("INVALID_IMAGE")]
          [] f = "\"error\":\"INVALID_IMAGE_TYPE\"" -> [error |-> JStr("INVALID_IMAGE_TYPE")]
          [] f = "\"error\":\"UNKNOWN_ERROR_CODE\"" -> [error |-> JStr("UNKNOWN_ERROR_CODE")]
          [] f = "\"differences\":[\"d1\"],\"error\":\"IMAGES_TOO_SIMILAR\"" ->
                [differences |-> JList(<<JStr("d1")>>), error |-> JStr("IMAGES_TOO_SIMILAR")]
          [] f = "\"resolved_tickets\":[],\"pending_tickets\":[],\"new_tickets\":[]" ->
                [resolved_tickets |-> JList(<<>>), pending_tickets |-> JList(<<>>),
                 new_tickets |-> JList(<<>>)]
          [] f = "\"resolved_tickets\":[],\"new_tickets\":[]" ->
                [resolved_tickets |-> JList(<<>>), new_tickets |-> JList(<<>>)]
          [] f = "\"resolved_tickets\":\"UI-001\",\"pending_tickets\":[],\"new_tickets\":[]" ->
                [resolved_tickets |-> JStr("UI-001"), pending_tickets |-> JList(<<>>),
                 new_tickets |-> JList(<<>>)]
          [] OTHER ->
                [resolved_tickets |-> JList(<<>>), pending_tickets |-> JList(<<>>),
                 new_tickets |-> JList(<<>>), notes |-> JStr("ok")] ]

IsMemberList(chunk) == chunk \in DOMAIN MemberLists

\* str.strip() as json.loads applies it: whitespace at both ends is skipped
RECURSIVE StripLeft(_)
StripLeft(text) ==
    IF text # <<>> /\ Head(text) = WS THEN StripLeft(Tail(text)) ELSE text

RECURSIVE StripRight(_)
StripRight(text) ==
    IF text # <<>> /\ text[Len(text)] = WS
    THEN StripRight(SubSeq(text, 1, Len(text) - 1))
    ELSE text

Strip(text) == StripRight(StripLeft(text))

JSONDecodeError == [ok |-> FALSE]
Decoded(v) == [ok |-> TRUE, v |-> v]

\* json.loads on a text that starts with { : the object it denotes, or
\* JSONDecodeError
RECURSIVE LoadsObject(_)
LoadsObject(text) ==
    IF Len(text) < 2 \/ text[1] # LBrace \/ text[Len(text)] # RBrace
    THEN JSONDecodeError
    ELSE LET inner == Strip(SubSeq(text, 2, Len(text) - 1))
         IN  IF inner = <<>> THEN Decoded(JDict(EmptyD))
             ELSE IF Len(inner) = 1 /\ IsMemberList(inner[1])
                  THEN Decoded(JDict(MemberLists[inner[1]]))
             ELSE IF inner[1] = DetailsKey
                  THEN LET sub == LoadsObject(StripLeft(Tail(inner)))
                       IN  IF sub.ok THEN Decoded(JDict([details |-> sub.v]))
                           ELSE JSONDecodeError
             ELSE JSONDecodeError

\* json.loads(text)
loads(text) ==
    LET body == Strip(text)
    IN  IF body = <<EmptyArray>> THEN Decoded(JList(<<>>))
        ELSE LoadsObject(body)

IsFence(chunk) == chunk \in {Fence, FenceJson}

\* the first position at or after i that does not hold whitespace
RECURSIVE SkipWS(_, _)
SkipWS(text, i) ==
    IF i <= Len(text) /\ text[i] = WS THEN SkipWS(text, i + 1) ELSE i

Least(S) == CHOOSE x \in S : \A y \in S : x <= y
Greatest(S) == CHOOSE x \in S : \A y \in S : y <= x

NoMatch == [found |-> FALSE]

\* the positions where the lazy group of the fenced pattern can end when it
\* starts at a: a closing brace followed by optional whitespace and a fence
FencedEnds(text, a) ==
    { b \in (a + 1)..Len(text) :
        /\ text[b] = RBrace
        /\ LET c == SkipWS(text, b + 1)
           IN  c <= Len(text) /\ IsFence(text[c]) }

\* the positions of a json fence from which the fenced pattern matches
FencedStarts(text) ==
    { i \in 1..Len(text) :
        /\ text[i] = FenceJson
        /\ LET a == SkipWS(text, i + 1)
           IN  a <= Len(text) /\ text[a] = LBrace /\ FencedEnds(text, a) # {} }

\* re.search of the fenced pattern (json fence, whitespace, lazy brace group,
\* whitespace, fence) with DOTALL: the leftmost match and its group 1
search_fenced(text) ==
    IF FencedStarts(text) = {} THEN NoMatch
    ELSE LET a == SkipWS(text, Least(FencedStarts(text)) + 1)
         IN  [found |-> TRUE, group |-> SubSeq(text, a, Least(FencedEnds(text, a)))]

\* re.search of the greedy brace pattern with DOTALL: from the first opening
\* brace to the last closing brace after it
search_braces(text) ==
    LET opens == { i \in 1..Len(text) : text[i] = LBrace }
        closes == { i \in 1..Len(text) : text[i] = RBrace }
    IN  IF opens = {} \/ closes = {} \/ Greatest(closes) < Least(opens)
        THEN NoMatch
        ELSE [found |-> TRUE, group |-> SubSeq(text, Least(opens), Greatest(closes))]

-----------------------------------------------------------------------------
(* The two model-backed agents *)

NoValue == [t |-> "none"]
Return(v) == [raised |-> None, message |-> "", value |-> v]
Raise(kind, message) == [raised |-> kind, message |-> message, value |-> NoValue]

\* what complete_vision / complete_text give back: the response text, or the
\* exception they raise
Completed(text) == [failed |-> FALSE, text |-> text]
CompletionFailed(kind, message) == [failed |-> TRUE, kind |-> kind, message |-> message]

\* Python's  "error" in differences_data
HasErrorMember(v) ==
    CASE v.t = "dict" -> "error" \in DOMAIN v.d
      [] v.t = "list" -> \E i \in 1..Len(v.items) : v.items[i] = JStr("error")
      [] OTHER -> FALSE

\* compare_screenshots without its check of the error member
UncheckedResult(v) == Return(v)

\* the check compare_screenshots runs on a structure it decoded, before it
\* returns it
CheckedResult(v) ==
    IF ~HasErrorMember(v) THEN Return(v)
    ELSE IF v.t # "dict"
         THEN Raise("TypeError", "list indices must be integers or slices, not str")
    ELSE LET error_code == v.d["error"]
         IN  IF error_code = JStr("IMAGES_TOO_SIMILAR")
             THEN Raise("ValueError", "Images are too similar to detect meaningful differences")
             ELSE IF error_code = JStr("INVALID_IMAGE_TYPE")
             THEN Raise("ValueError", "One or both images are not valid webpage screenshots")
             ELSE Raise("ValueError", "LLM returned error: " \o error_code.s)

compare_screenshots(completion) ==
    IF completion.failed THEN Raise(completion.kind, completion.message)
    ELSE LET response_text == completion.text
             direct == loads(response_text)
             markdown_json_match == search_fenced(response_text)
             fenced == IF markdown_json_match.found
                       THEN loads(markdown_json_match.group)
                       ELSE JSONDecodeError
             json_match == search_braces(response_text)
             braces == IF json_match.found THEN loads(json_match.group)
                       ELSE JSONDecodeError
         IN  IF direct.ok THEN CheckedResult(direct.v)
             ELSE IF fenced.ok THEN CheckedResult(fenced.v)
             ELSE IF braces.ok THEN CheckedResult(braces.v)
             ELSE Raise("ValueError", "LLM response does not contain valid JSON")

\* an extraction that answers with an empty partition instead of raising
extract_analysis_with_fallback(completion) ==
    IF ~completion.failed /\ loads(completion.text).ok
    THEN Return(loads(completion.text).v)
    ELSE Return(JDict([resolved_tickets |-> JList(<<>>), pending_tickets |-> JList(<<>>),
                       new_tickets |-> JList(<<>>)]))

\* the extraction of analyze_differences, once the model has been called
extract_analysis(completion) ==
    IF completion.failed THEN Raise(completion.kind, completion.message)
    ELSE LET response_text == completion.text
             direct == loads(response_text)
             markdown_json_match == search_fenced(response_text)
             fenced == IF markdown_json_match.found
                       THEN loads(markdown_json_match.group)
                       ELSE JSONDecodeError
             json_match == search_braces(response_text)
             braces == IF json_match.found THEN loads(json_match.group)
                       ELSE JSONDecodeError
         IN  IF direct.ok THEN Return(direct.v)
             ELSE IF fenced.ok THEN Return(fenced.v)
             ELSE IF braces.ok THEN Return(braces.v)
             ELSE Raise("ValueError", "Analysis response does not contain valid JSON")

EmptyPartition ==
    JDict([resolved_tickets |-> JList(<<>>), pending_tickets |-> JList(<<>>),
           new_tickets |-> JList(<<>>)])

\* Python truthiness of a decoded value:  not differences
Falsy(v) ==
    CASE v.t = "list" -> v.items = <<>>
      [] v.t = "str" -> v.s = ""
      [] v.t = "dict" -> DOMAIN v.d = {}
      [] OTHER -> TRUE

NoCompletion == [none |-> TRUE]
NoOutcome == [none |-> TRUE]

\* the processes that call create_ticket at the same time, each over its own
\* connection, and the image files the gateway is handed
Runs == {"run1", "run2"}
ImagePaths == {"baseline.png", "updated.png"}

\* no caller has started, the cache directory is empty
ExtrasIdle ==
    /\ procs = [p \in Runs |-> [pc |-> "idle", next_number |-> 0, resp |-> NoOp]]
    /\ cache = [entries |-> {}, images |-> [f \in ImagePaths |-> "v1"],
                calls |-> 0, last |-> NoOp]

\* no agent has been called
AgentsIdle ==
    /\ visionCompletion = NoCompletion
    /\ textCompletion = NoCompletion
    /\ differences = NoValue
    /\ outcome = NoOutcome
    /\ modelCalls = 0
    /\ backlogReads = 0

-----------------------------------------------------------------------------
(* Actions *)

Init ==
    /\ db \in InitBacklogs
    /\ idUnique \in BOOLEAN
    /\ now = 0
    /\ minorLog = <<>>
    /\ analysis = NoAnalysis
    /\ results = NoResults
    /\ applyCount = 0
    /\ opCount = 0
    /\ dbBefore = db
    /\ dbOnce = db
    /\ dbStart = db
    /\ lastOp = NoOp
    /\ AgentsIdle
    /\ ExtrasIdle

\* one run of execute_actions on the analysis a
Run(a) ==
    LET r == execute_actions(db, idUnique, now, minorLog, a)
    IN  /\ db' = r.db
        /\ now' = r.now
        /\ minorLog' = r.minorLog
        /\ results' = r.results
        /\ analysis' = a
        /\ applyCount' = applyCount + 1
        /\ dbBefore' = db
        /\ dbOnce' = IF applyCount = 0 THEN r.db ELSE dbOnce
        /\ lastOp' = NoOp
        /\ UNCHANGED <<idUnique, opCount, dbStart>>
        /\ UNCHANGED agentVars
        /\ UNCHANGED extraVars

\* the first run, on any analysis
Apply ==
    /\ applyCount = 0
    /\ \E a \in Analyses : Run(a)

\* a later run re-applies the same analysis
ReApply ==
    /\ applyCount >= 1
    /\ applyCount < MaxApplies
    /\ Run(analysis)

Next == Apply \/ ReApply

Spec == Init /\ [][Next]_vars

-----------------------------------------------------------------------------
(* Direct use of the store: JIRAMCPServer's methods called in any order *)

OpStatuses == {"done", "on_hold"}

CreateTicketOp ==
    /\ opCount < MaxOps
    /\ LET r == create_ticket(db, idUnique, now, NewCritical.title,
                              NewCritical.description, NewCritical.priority,
                              NewCritical.type, NewCritical.assignee,
                              NewCritical.reporter, NewCritical.status, None)
       IN  /\ db' = r.db
           /\ now' = r.now
           /\ lastOp' = [op |-> "create_ticket", resp |-> r.resp]
    /\ dbBefore' = db
    /\ opCount' = opCount + 1
    /\ UNCHANGED <<idUnique, minorLog, analysis, results, applyCount, dbOnce, dbStart>>
    /\ UNCHANGED agentVars
    /\ UNCHANGED extraVars

UpdateTicketStatusOp ==
    /\ opCount < MaxOps
    /\ \E ticket_id \in PartitionIds, new_status \in OpStatuses :
         LET r == update_ticket_status(db, now, ticket_id, new_status)
         IN  /\ db' = r.db
             /\ now' = r.now
             /\ lastOp' = [op |-> "update_ticket_status", resp |-> r.resp]
    /\ dbBefore' = db
    /\ opCount' = opCount + 1
    /\ UNCHANGED <<idUnique, minorLog, analysis, results, applyCount, dbOnce, dbStart>>
    /\ UNCHANGED agentVars
    /\ UNCHANGED extraVars

UpdateTicketCommentOp ==
    /\ opCount < MaxOps
    /\ \E ticket_id \in PartitionIds :
         LET r == update_ticket_comment(db, now, ticket_id, Reason(ticket_id))
         IN  /\ db' = r.db
             /\ now' = r.now
             /\ lastOp' = [op |-> "update_ticket_comment", resp |-> r.resp]
    /\ dbBefore' = db
    /\ opCount' = opCount + 1
    /\ UNCHANGED <<idUnique, minorLog, analysis, results, applyCount, dbOnce, dbStart>>
    /\ UNCHANGED agentVars
    /\ UNCHANGED extraVars

NextStore == CreateTicketOp \/ UpdateTicketStatusOp \/ UpdateTicketCommentOp

SpecStore == Init /\ [][NextStore]_vars

-----------------------------------------------------------------------------
(* The texts a model can answer with *)

RECURSIVE Flatten(_)
Flatten(pieces) ==
    IF pieces = <<>> THEN <<>> ELSE Head(pieces) \o Flatten(Tail(pieces))

\* the texts made of at most MaxPieces pieces
Texts(Pieces) ==
    UNION { { Flatten(s) : s \in [1..k -> Pieces] } : k \in 0..MaxPieces }

ObjectText(members) == <<LBrace, members, RBrace>>
EmptyObjectText == <<LBrace, RBrace>>
NestedObjectText(members) == <<LBrace, DetailsKey>> \o ObjectText(members) \o <<RBrace>>

\* a remark in braces, as prose may hold one
BracedRemark == <<LBrace, Prose, RBrace>>

NoisePieces ==
    {<<LBrace>>, <<RBrace>>, <<FenceJson>>, <<Fence>>, <<WS>>, <<Prose>>, <<EmptyArray>>,
     BracedRemark}

VisionMembers ==
    { f \in DOMAIN MemberLists :
        "differences" \in DOMAIN MemberLists[f] \/ "error" \in DOMAIN MemberLists[f] }

PartitionMembers ==
    { f \in DOMAIN MemberLists : "resolved_tickets" \in DOMAIN MemberLists[f] }

VisionObjectTexts ==
    { ObjectText(f) : f \in VisionMembers }
        \cup {EmptyObjectText, NestedObjectText("\"error\":\"IMAGES_TOO_SIMILAR\"")}

PartitionObjectTexts ==
    { ObjectText(f) : f \in PartitionMembers } \cup {EmptyObjectText}

CompletionFailures ==
    { CompletionFailed("Exception", "LLM completion failed: connection error"),
      CompletionFailed("ValueError", "OpenAI API key is required for LLM operations.") }

VisionCompletions ==
    CompletionFailures \cup { Completed(t) : t \in Texts(NoisePieces \cup VisionObjectTexts) }

TextCompletions ==
    CompletionFailures \cup { Completed(t) : t \in Texts(NoisePieces \cup PartitionObjectTexts) }

\* the difference lists run_regression_test hands to analyze_differences
DifferenceLists == {JList(<<>>), JList(<<JStr("d1")>>)}

\* the backlogs the classifier is run against
ClassifierBacklogs ==
    { SelectRows(1, S) : S \in {{}, {1, 2}, {4}, {1, 4}} }

\* the store and the orchestrator at rest on the table rows
StoreAt(rows) ==
    /\ db = rows
    /\ idUnique = TRUE
    /\ now = 0
    /\ minorLog = <<>>
    /\ analysis = NoAnalysis
    /\ results = NoResults
    /\ applyCount = 0
    /\ opCount = 0
    /\ dbBefore = rows
    /\ dbOnce = rows
    /\ dbStart = rows
    /\ lastOp = NoOp
    /\ ExtrasIdle

storeVars == <<db, idUnique, now, minorLog, analysis, results, applyCount, opCount, dbBefore, dbOnce, dbStart, lastOp>>

-----------------------------------------------------------------------------
(* ImageDiffAgent.compare_screenshots on every answer of the vision model *)

InitDiff ==
    /\ StoreAt(<<>>)
    /\ visionCompletion \in VisionCompletions
    /\ textCompletion = NoCompletion
    /\ differences = NoValue
    /\ outcome = NoOutcome
    /\ modelCalls = 0
    /\ backlogReads = 0

CompareScreenshots ==
    /\ outcome = NoOutcome
    /\ outcome' = compare_screenshots(visionCompletion)
    /\ modelCalls' = modelCalls + 1
    /\ UNCHANGED <<visionCompletion, textCompletion, differences, backlogReads>>
    /\ UNCHANGED storeVars
    /\ UNCHANGED extraVars

NextDiff == CompareScreenshots

SpecDiff == InitDiff /\ [][NextDiff]_vars

-----------------------------------------------------------------------------
(* ClassificationAgent.analyze_differences *)

\* the tickets analyze_differences puts in its prompt
jira_tickets(all_tickets) == SelectSeq(all_tickets, LAMBDA ticket : StartsWith(ticket.id, "UI-"))

\* analyze_differences without the early return on an empty list
analyze_differences_always_asks(rows, diffs, completion) ==
    [out |-> extract_analysis(completion), modelCalls |-> 1, backlogReads |-> 1,
     prompt |-> [differences |-> diffs, jira_tickets |-> jira_tickets(rows)]]

analyze_differences(rows, diffs, completion) ==
    IF Falsy(diffs)
    THEN [out |-> Return(EmptyPartition), modelCalls |-> 0, backlogReads |-> 0,
          prompt |-> None]
    ELSE [out |-> extract_analysis(completion), modelCalls |-> 1, backlogReads |-> 1,
          prompt |-> [differences |-> diffs, jira_tickets |-> jira_tickets(rows)]]

InitClassify ==
    /\ \E rows \in ClassifierBacklogs : StoreAt(rows)
    /\ visionCompletion = NoCompletion
    /\ textCompletion \in TextCompletions
    /\ differences \in DifferenceLists
    /\ outcome = NoOutcome
    /\ modelCalls = 0
    /\ backlogReads = 0

AnalyzeDifferences ==
    /\ outcome = NoOutcome
    /\ LET r == analyze_differences(db, differences, textCompletion)
       IN  /\ outcome' = r.out
           /\ modelCalls' = modelCalls + r.modelCalls
           /\ backlogReads' = backlogReads + r.backlogReads
    /\ UNCHANGED <<visionCompletion, textCompletion, differences>>
    /\ UNCHANGED storeVars
    /\ UNCHANGED extraVars

\* get_all_tickets: the rows of the table, or the empty list when the read
\* raised (no file, no table, locked database)
get_all_tickets(rows, readable) == IF readable THEN rows ELSE <<>>

\* analyze_differences while the store cannot be read
AnalyzeDifferencesUnreadable ==
    /\ outcome = NoOutcome
    /\ LET r == analyze_differences(get_all_tickets(db, FALSE), differences, textCompletion)
       IN  /\ outcome' = r.out
           /\ modelCalls' = modelCalls + r.modelCalls
           /\ backlogReads' = backlogReads + r.backlogReads
           /\ lastOp' = [op |-> "get_all_tickets", failed |-> r.backlogReads > 0]
    /\ UNCHANGED <<visionCompletion, textCompletion, differences>>
    /\ UNCHANGED <<db, idUnique, now, minorLog, analysis, results, applyCount, opCount, dbBefore, dbOnce, dbStart>>
    /\ UNCHANGED extraVars

NextUnreadable == AnalyzeDifferences \/ AnalyzeDifferencesUnreadable

SpecUnreadable == InitClassify /\ [][NextUnreadable]_vars

NextClassify == AnalyzeDifferences

SpecClassify == InitClassify /\ [][NextClassify]_vars

-----------------------------------------------------------------------------
(* app.run_regression_test *)

\* the attribute run_regression_test looks up on the OrchestratorAgent:
\* the class defines update_resolved_tickets, update_tickets_needing_work,
\* create_tickets_for_critical_issues, log_minor_issues, execute_actions and
\* validate_actions, and no orchestrate_jira_workflow
orchestrate_jira_workflow(a) ==
    Raise("AttributeError",
          "'OrchestratorAgent' object has no attribute 'orchestrate_jira_workflow'")

ErrorResult(raised) ==
    [status |-> "error", message |-> raised.message, error_type |-> raised.raised]

\* differences.get("differences")
GetDifferences(v) == IF "differences" \in DOMAIN v.d THEN v.d["differences"] ELSE NoValue

\* a run that files a ticket for what the vision stage found before the
\* classifier has answered
run_regression_test_filing_first(rows, vision, text) ==
    LET found == compare_screenshots(vision)
        filed == create_ticket(rows, TRUE, 0, "UI Regression Issue",
                               "Critical UI issue detected during regression testing",
                               "High", "Bug", "auto.assigned@company.com",
                               "ui.regression.agent@company.com", "Open", "")
    IN  [db |-> IF found.raised = None THEN filed.db ELSE rows,
         result |-> ErrorResult(IF found.raised # None THEN found
                                ELSE extract_analysis(text)),
         differences |-> NoValue, modelCalls |-> 1, backlogReads |-> 0]

run_regression_test(rows, vision, text) ==
    LET found == compare_screenshots(vision)
    IN  IF found.raised # None
        THEN [db |-> rows, result |-> ErrorResult(found), differences |-> NoValue,
              modelCalls |-> 1, backlogReads |-> 0]
        ELSE IF found.value.t # "dict"
        THEN [db |-> rows,
              result |-> ErrorResult(Raise("AttributeError", "'list' object has no attribute 'get'")),
              differences |-> NoValue, modelCalls |-> 1, backlogReads |-> 0]
        ELSE IF Falsy(GetDifferences(found.value))
        THEN [db |-> rows, result |-> [status |-> "success", result |-> "no_differences",
                          message |-> "No UI differences detected"],
              differences |-> GetDifferences(found.value),
              modelCalls |-> 1, backlogReads |-> 0]
        ELSE LET diffs == GetDifferences(found.value)
                 classified == analyze_differences(rows, diffs, text)
                 applied == orchestrate_jira_workflow(classified.out.value)
                 calls == 1 + classified.modelCalls
             IN  IF classified.out.raised # None
                 THEN [db |-> rows, result |-> ErrorResult(classified.out), differences |-> diffs,
                       modelCalls |-> calls, backlogReads |-> classified.backlogReads]
                 ELSE IF applied.raised # None
                 THEN [db |-> rows, result |-> ErrorResult(applied), differences |-> diffs,
                       modelCalls |-> calls, backlogReads |-> classified.backlogReads]
                 ELSE [db |-> rows, result |-> [status |-> "completed",
                                   differences_found |-> Len(diffs.items),
                                   details |-> [differences |-> found.value,
                                                analysis |-> classified.out.value]],
                       differences |-> diffs,
                       modelCalls |-> calls, backlogReads |-> classified.backlogReads]

RunVisionCompletions ==
    CompletionFailures
        \cup { Completed(t) : t \in VisionObjectTexts \cup {<<EmptyArray>>, <<Prose>>} }

RunTextCompletions ==
    CompletionFailures \cup { Completed(t) : t \in PartitionObjectTexts \cup {<<Prose>>} }

InitRun ==
    /\ \E rows \in ClassifierBacklogs : StoreAt(rows)
    /\ visionCompletion \in RunVisionCompletions
    /\ textCompletion \in RunTextCompletions
    /\ differences = NoValue
    /\ outcome = NoOutcome
    /\ modelCalls = 0
    /\ backlogReads = 0

RunRegressionTest ==
    /\ outcome = NoOutcome
    /\ LET r == run_regression_test(db, visionCompletion, textCompletion)
       IN  /\ outcome' = Return(r.result)
           /\ differences' = r.differences
           /\ modelCalls' = modelCalls + r.modelCalls
           /\ backlogReads' = backlogReads + r.backlogReads
           /\ db' = r.db
    /\ UNCHANGED <<visionCompletion, textCompletion>>
    /\ UNCHANGED <<idUnique, now, minorLog, analysis, results, applyCount, opCount, dbBefore, dbOnce, dbStart, lastOp>>
    /\ UNCHANGED extraVars

NextRun == RunRegressionTest

SpecRun == InitRun /\ [][NextRun]_vars

-----------------------------------------------------------------------------
(* create_ticket called by two processes at once: each call is a SELECT     *)
(* COUNT on its own connection followed by an INSERT and a commit           *)

\* cursor.execute("SELECT COUNT(*) ...") ; next_number = count + 1
ReadCount(p) ==
    /\ procs[p].pc = "idle"
    /\ procs' = [procs EXCEPT ![p] = [pc |-> "counted", next_number |-> CountUI(db) + 1,
                                      resp |-> NoOp]]
    /\ UNCHANGED <<cache, db, now, dbBefore, lastOp>>
    /\ UNCHANGED <<idUnique, minorLog, analysis, results, applyCount, opCount, dbOnce, dbStart>>
    /\ UNCHANGED agentVars

\* cursor.execute("INSERT ...") ; conn.commit() ; return
InsertTicket(p) ==
    /\ procs[p].pc = "counted"
    /\ LET ticket_id == "UI-" \o Fmt03(procs[p].next_number)
           timestamp == now + 1
           row == [id |-> ticket_id, title |-> NewCritical.title,
                   description |-> NewCritical.description, status |-> NewCritical.status,
                   priority |-> NewCritical.priority, type |-> NewCritical.type,
                   created |-> timestamp, updated |-> timestamp,
                   assignee |-> NewCritical.assignee, reporter |-> NewCritical.reporter,
                   comment |-> None]
           rejected == idUnique /\ HasId(db, ticket_id)
       IN  /\ db' = IF rejected THEN db ELSE Append(db, row)
           /\ now' = timestamp
           /\ procs' = [procs EXCEPT ![p] =
                          [pc |-> "done", next_number |-> procs[p].next_number,
                           resp |-> IF rejected
                                    THEN [success |-> FALSE, error |-> "Ticket creation failed"]
                                    ELSE [success |-> TRUE, ticket |-> [id |-> ticket_id]]]]
    /\ dbBefore' = db
    /\ lastOp' = [op |-> "create_ticket", by |-> p]
    /\ UNCHANGED <<idUnique, minorLog, analysis, results, applyCount, opCount, dbOnce, dbStart>>
    /\ UNCHANGED agentVars
    /\ UNCHANGED cache

NextConc == \E p \in Runs : ReadCount(p) \/ InsertTicket(p)

SpecConc == Init /\ [][NextConc]_vars

-----------------------------------------------------------------------------
(* A run of execute_actions that is cut short between two of its store      *)
(* calls, followed by a run of the same analysis from the start             *)

\* the analyses of the retried runs, under the key names execute_actions reads
RetryAnalyses ==
    { MkAnalysis(r, p, n, "legacy") :
        r \in DistinctSeqs({ e \in TicketEntries : e.ticket_id \in {"UI-001", "UI-002"} }, MaxList),
        p \in DistinctSeqs({ e \in TicketEntries : e.ticket_id \in {"UI-001", "UI-002"} }, MaxList),
        n \in DistinctSeqs(NewEntries, MaxList) }

\* the entries execute_actions has gone through when it has handled k of them
Truncated(a, k) ==
    LET r == a.resolved_tickets
        p == a.tickets_needing_work
        n == a.new_issues
        Upto(list, m) == SubSeq(list, 1, IF m < 0 THEN 0 ELSE IF m > Len(list) THEN Len(list) ELSE m)
    IN  [resolved_tickets |-> Upto(r, k),
         tickets_needing_work |-> Upto(p, k - Len(r)),
         new_issues |-> Upto(n, k - Len(r) - Len(p))]

\* the process dies after k entries (k = all of them: the run is whole)
AbortedRun ==
    /\ applyCount = 0
    /\ \E a \in RetryAnalyses :
         LET total == Len(a.resolved_tickets) + Len(a.tickets_needing_work) + Len(a.new_issues)
         IN  \E k \in 0..total :
               LET r == execute_actions(db, idUnique, now, minorLog, Truncated(a, k))
               IN  /\ db' = r.db
                   /\ now' = r.now
                   /\ minorLog' = IF k = total THEN r.minorLog ELSE minorLog
                   /\ results' = IF k = total THEN r.results ELSE [raised |-> "Aborted"]
                   /\ analysis' = a
                   /\ dbOnce' = r.db
    /\ applyCount' = 1
    /\ dbBefore' = db
    /\ lastOp' = NoOp
    /\ UNCHANGED <<idUnique, opCount, dbStart>>
    /\ UNCHANGED agentVars
    /\ UNCHANGED extraVars

InitRetry == (\E rows \in ClassifierBacklogs : StoreAt(rows)) /\ AgentsIdle

NextRetry == AbortedRun \/ ReApply

SpecRetry == InitRetry /\ [][NextRetry]_vars

-----------------------------------------------------------------------------
(* The response cache of the gateway: complete_vision over the cache        *)
(* directory and the image files                                            *)

MaxCalls == 3

Prompts == {"ui_regression_prompt", "other prompt"}

\* _get_input_hash: the digest of prompt|model|max_tokens|sorted paths, two
\* inputs having one digest only when these four agree
get_input_hash(prompt, model, max_tokens, image_paths) ==
    LET rank == [f \in ImagePaths |-> IF f = "baseline.png" THEN 1 ELSE 2]
        sorted == IF Len(image_paths) = 2 /\ rank[image_paths[1]] > rank[image_paths[2]]
                  THEN <<image_paths[2], image_paths[1]>>
                  ELSE image_paths
    IN  <<prompt, model, max_tokens, sorted>>

\* complete_vision on the cache c: the cached response of the key if there is
\* one, else the answer of the model to the prompt and the images as they are
\* on disk, stored under the key
complete_vision(c, prompt, image_paths) ==
    LET cache_key == get_input_hash(prompt, "gpt-4o", 4096, image_paths)
        call == [prompt |-> prompt, image_paths |-> image_paths,
                 contents |-> [i \in 1..Len(image_paths) |-> c.images[image_paths[i]]]]
        hits == { e \in c.entries : e.key = cache_key }
    IN  IF hits # {}
        THEN LET e == CHOOSE e \in hits : TRUE
             IN  [c EXCEPT !.calls = c.calls + 1,
                           !.last = [op |-> "complete_vision", call |-> call, hit |-> TRUE,
                                     content |-> e.content, stored_by |-> e.stored_by]]
        ELSE LET content == [answer_to |-> call.prompt, seeing |-> call.contents]
             IN  [c EXCEPT !.calls = c.calls + 1,
                           !.entries = c.entries \cup
                               {[key |-> cache_key, content |-> content, stored_by |-> call]},
                           !.last = [op |-> "complete_vision", call |-> call, hit |-> FALSE,
                                     content |-> content, stored_by |-> call]]

CompleteVision ==
    /\ cache.calls < MaxCalls
    /\ \E prompt \in Prompts :
         \E image_paths \in {<<"baseline.png", "updated.png">>, <<"updated.png", "baseline.png">>} :
           cache' = complete_vision(cache, prompt, image_paths)
    /\ UNCHANGED procs
    /\ UNCHANGED storeVars
    /\ UNCHANGED agentVars

\* a new screenshot is saved under a path that was used before
WriteImage ==
    /\ \E f \in ImagePaths : \E v \in {"v1", "v2"} :
         /\ cache.images[f] # v
         /\ cache' = [cache EXCEPT !.images[f] = v, !.last = [op |-> "write_image"]]
    /\ UNCHANGED procs
    /\ UNCHANGED storeVars
    /\ UNCHANGED agentVars

NextCache == CompleteVision \/ WriteImage

SpecCache == InitRetry /\ [][NextCache]_vars

-----------------------------------------------------------------------------
(* Vocabulary of the properties *)

\* the three lists of a disposition partition, under the key names of the
\* classifier's output or under the key names execute_actions reads
ResolvedList(a) == Get(a, "resolved_tickets", <<>>)
PendingList(a) == Get(a, "pending_tickets", <<>>) \o Get(a, "tickets_needing_work", <<>>)
NewList(a) == Get(a, "new_tickets", <<>>) \o Get(a, "new_issues", <<>>)

IdsOf(list) == { list[i].ticket_id : i \in 1..Len(list) }

\* the positions of the rows with this id among the tickets that were in the
\* table before the last run (rows are only ever appended, so a ticket keeps
\* its position)
ExistingRows(ticket_id) == { i \in 1..Len(dbBefore) : dbBefore[i].id = ticket_id }

DigitVal(c) ==
    CASE c = "0" -> 0 [] c = "1" -> 1 [] c = "2" -> 2 [] c = "3" -> 3 [] c = "4" -> 4
      [] c = "5" -> 5 [] c = "6" -> 6 [] c = "7" -> 7 [] c = "8" -> 8 [] c = "9" -> 9

\* int(s) for a string of decimal digits
RECURSIVE ParseNat(_)
ParseNat(s) ==
    IF Len(s) = 0 THEN 0
    ELSE 10 * ParseNat(SubSeq(s, 1, Len(s) - 1)) + DigitVal(SubSeq(s, Len(s), Len(s)))

\* the numeric suffix of an id of the form UI-<digits>
NumSuffix(id) == ParseNat(SubSeq(id, 4, Len(id)))

UISuffixes(rows) ==
    { NumSuffix(rows[i].id) : i \in { j \in 1..Len(rows) : StartsWith(rows[j].id, "UI-") } }

MaxSuffix(rows) ==
    IF UISuffixes(rows) = {} THEN 0
    ELSE CHOOSE m \in UISuffixes(rows) : \A n \in UISuffixes(rows) : n <= m

-----------------------------------------------------------------------------
(* Properties *)

\* C1: after execute_actions has run, every ticket that exists in the backlog
\* and is named in resolved_tickets (and in no other list) has status done.
C1_ResolvedTicketsAreDone ==
    applyCount >= 1 =>
        \A id \in IdsOf(ResolvedList(analysis)) \ IdsOf(PendingList(analysis)) :
            \A i \in ExistingRows(id) : db[i].status = "done"

\* C2: after execute_actions has run, every ticket that exists in the backlog
\* and is named in the pending list (and not in the resolved list) has status
\* on_hold.
C2_PendingTicketsAreOnHold ==
    applyCount >= 1 =>
        \A id \in IdsOf(PendingList(analysis)) \ IdsOf(ResolvedList(analysis)) :
            \A i \in ExistingRows(id) : db[i].status = "on_hold"

\* C3: after execute_actions has processed a pending entry for an existing
\* ticket, the ticket's comment is set and contains the entry's reason.
C3_PendingTicketsCarryReason ==
    applyCount >= 1 =>
        \A k \in 1..Len(PendingList(analysis)) :
            LET entry == PendingList(analysis)[k]
            IN  \A i \in ExistingRows(entry.ticket_id) :
                    /\ db[i].comment # None
                    /\ Contains(entry.reason, db[i].comment)

\* the fields of a new-ticket entry that the created ticket must repeat
EntryFields == {"title", "description", "priority", "type", "assignee", "reporter",
                "status"}

\* C4: for each entry of the new list, the first run creates a ticket whose
\* title, description, priority, type, assignee, reporter and status equal the
\* values the entry supplies.
C4_NewTicketsCarryEntryFields ==
    applyCount = 1 =>
        \A k \in 1..Len(NewList(analysis)) :
            LET entry == NewList(analysis)[k]
            IN  \E i \in (Len(dbBefore) + 1)..Len(db) :
                    \A f \in EntryFields \cap DOMAIN entry : db[i][f] = entry[f]

\* C5: a run grows the backlog by exactly one ticket per entry of the new
\* list and by none for the resolved and pending entries.
C5_TicketCountGrowsByNewEntries ==
    applyCount >= 1 => Len(db) = Len(dbBefore) + Len(NewList(analysis))

\* C6: create_ticket gives the new ticket the id whose numeric suffix is one
\* more than the largest numeric suffix among the existing UI- tickets.
C6_NextIdIsMaxSuffixPlusOne ==
    (lastOp.op = "create_ticket" /\ lastOp.resp.success) =>
        lastOp.resp.ticket.id = "UI-" \o Fmt03(MaxSuffix(dbBefore) + 1)

\* C7: no two tickets share an id, and every create_ticket call succeeds with
\* an id that was not in the backlog before the call.
C7_IdsUniqueAndNeverReused ==
    /\ \A i, j \in 1..Len(db) : db[i].id = db[j].id => i = j
    /\ lastOp.op = "create_ticket" =>
           /\ lastOp.resp.success
           /\ ~HasId(dbBefore, lastOp.resp.ticket.id)

\* the rows that were in the table before the first run keep their positions
SameStatusAndComment(rows1, rows2, n) ==
    \A i \in 1..n : rows1[i].status = rows2[i].status /\ rows1[i].comment = rows2[i].comment

\* the positions of the rows with this id among the tickets the behaviour
\* started with
StartRows(ticket_id) == { i \in 1..Len(dbStart) : dbStart[i].id = ticket_id }

\* C8: after running the same analysis twice, every resolved ticket is done,
\* every pending ticket is on_hold with its comment, and the statuses and
\* comments of the tickets that existed before equal those after one run.
C8_ApplyTwiceEqualsApplyOnce ==
    applyCount = 2 =>
        /\ \A id \in IdsOf(ResolvedList(analysis)) \ IdsOf(PendingList(analysis)) :
               \A i \in StartRows(id) : db[i].status = "done"
        /\ \A k \in 1..Len(PendingList(analysis)) :
               LET entry == PendingList(analysis)[k]
               IN  entry.ticket_id \notin IdsOf(ResolvedList(analysis)) =>
                       \A i \in StartRows(entry.ticket_id) :
                           /\ db[i].status = "on_hold"
                           /\ db[i].comment = dbOnce[i].comment
                           /\ db[i].comment # None
        /\ SameStatusAndComment(db, dbOnce, Len(dbStart))

\* C9: running the same analysis twice leaves as many tickets as running it
\* once.
C9_ReApplyCreatesNoDuplicates ==
    applyCount = 2 => Len(db) = Len(dbOnce)

\* the entries of a list whose ticket id is in the table
ExistingEntries(list, rows) ==
    SelectSeq(list, LAMBDA entry : HasId(rows, entry.ticket_id))

\* C10: the report lists, per sub-list, exactly the tickets that were
\* mutated; an entry whose ticket id is not in the backlog changes nothing,
\* does not fail the run and is not listed.
C10_ReportListsOnlyMutatedTickets ==
    (applyCount = 1 /\ Get(analysis, "new_issues", <<>>) = <<>>) =>
        /\ results.raised = None
        /\ Len(results.resolved_tickets)
               = Len(ExistingEntries(ResolvedList(analysis), dbBefore))
        /\ \A i \in 1..Len(results.resolved_tickets) :
               /\ results.resolved_tickets[i].success
               /\ HasId(dbBefore, results.resolved_tickets[i].ticket_id)

\* the entries of the list execute_actions reads new issues from that have
\* this severity
IssuesOfSeverity(a, severity) ==
    SelectSeq(Get(a, "new_issues", <<>>),
              LAMBDA issue : Get(issue, "severity", None) = severity)

\* an item of the last analysis failed in the store: an update named a ticket
\* that is not there, or the id of a ticket to create was taken
SomeItemFailed ==
    \/ \E id \in IdsOf(ResolvedList(analysis)) : ~HasId(dbBefore, id)
    \/ \E id \in IdsOf(Get(analysis, "tickets_needing_work", <<>>)) : ~HasId(dbBefore, id)
    \/ /\ IssuesOfSeverity(analysis, "critical") # <<>>
       /\ idUnique
       /\ HasId(dbBefore, NextTicketId(dbBefore))

\* C11: a failure on one item does not abort execute_actions: it still
\* returns its report and every remaining item is processed (every critical
\* issue is attempted, every minor issue is logged).
C11_ItemFailureDoesNotAbort ==
    (applyCount = 1 /\ SomeItemFailed) =>
        /\ results.raised = None
        /\ Len(results.created_tickets) = Len(IssuesOfSeverity(analysis, "critical"))
        /\ Len(minorLog) = Len(IssuesOfSeverity(analysis, "minor"))

\* the ids the last analysis names in its lists of existing tickets
NamedIds == IdsOf(ResolvedList(analysis)) \cup IdsOf(PendingList(analysis))

MutableFields == {"status", "comment", "updated"}

\* C12: a run of execute_actions changes no field of a ticket that existed
\* before it other than status, comment and updated, changes nothing on a
\* ticket the analysis does not name, and leaves every ticket whose id does
\* not start with UI- identical.
C12_ApplyTouchesOnlyNamedUITickets ==
    applyCount >= 1 =>
        \A i \in 1..Len(dbBefore) :
            /\ \A f \in (DOMAIN dbBefore[i]) \ MutableFields : db[i][f] = dbBefore[i][f]
            /\ dbBefore[i].id \notin NamedIds => db[i] = dbBefore[i]
            /\ ~StartsWith(dbBefore[i].id, "UI-") => db[i] = dbBefore[i]

\* the texts json.loads can be handed when a structure is cut out of a
\* response: its contiguous spans
Spans(text) == { SubSeq(text, i, j) : i, j \in 1..Len(text) }

\* no part of the response is valid JSON
NothingDecodes(completion) ==
    \A span \in Spans(completion.text) \cup {completion.text} : ~loads(span).ok

\* the structure the three attempts of the agents recover from a response:
\* the whole text, else the fenced group, else the brace span
Recovered(text) ==
    LET fence == search_fenced(text)
        brace == search_braces(text)
    IN  IF loads(text).ok THEN loads(text)
        ELSE IF fence.found /\ loads(fence.group).ok THEN loads(fence.group)
        ELSE IF brace.found THEN loads(brace.group)
        ELSE JSONDecodeError

ClassifierRan == outcome # NoOutcome /\ textCompletion # NoCompletion
DiffRan == outcome # NoOutcome /\ visionCompletion # NoCompletion /\ textCompletion = NoCompletion

\* C13: analyze_differences on an empty difference list returns the
\* partition with three empty lists and calls no model, whatever the backlog
\* and whatever the model would have answered.
C13_EmptyDifferencesShortCircuit ==
    (ClassifierRan /\ differences = JList(<<>>)) =>
        /\ outcome = Return(EmptyPartition)
        /\ modelCalls = 0

C13_Witness ==
    /\ ClassifierRan
    /\ differences = JList(<<>>)
    /\ db # <<>>
    /\ textCompletion = Completed(ObjectText("\"resolved_tickets\":[],\"new_tickets\":[]"))
    /\ outcome = Return(EmptyPartition)

\* C14: when the model call fails or nothing in the response decodes,
\* analyze_differences raises; whatever it returns after calling the model
\* was decoded from a span of the response, never put in its place.
C14_ClassifierRaisesWhenNothingRecovered ==
    (ClassifierRan /\ ~Falsy(differences)) =>
        /\ textCompletion.failed => (outcome.raised = textCompletion.kind /\ outcome.value = NoValue)
        /\ (~textCompletion.failed /\ NothingDecodes(textCompletion)) =>
                (outcome.raised = "ValueError" /\ outcome.value = NoValue)
        /\ outcome.raised = None =>
                \E span \in Spans(textCompletion.text) : loads(span) = Decoded(outcome.value)

C14_Witness ==
    /\ ClassifierRan
    /\ ~Falsy(differences)
    /\ textCompletion = Completed(<<Prose, LBrace, Prose>>)
    /\ outcome = Raise("ValueError", "Analysis response does not contain valid JSON")

\* C15: whenever the structure recovered from the vision model's response,
\* by any of the three attempts, holds an error member, compare_screenshots
\* raises; it never returns a structure with an error member.
C15_ErrorSentinelAlwaysRaises ==
    (DiffRan /\ ~visionCompletion.failed) =>
        LET recovered == Recovered(visionCompletion.text)
        IN  /\ (recovered.ok /\ HasErrorMember(recovered.v)) =>
                    (outcome.raised # None /\ outcome.value = NoValue)
            /\ outcome.raised = None => ~HasErrorMember(outcome.value)

C15_Witness ==
    /\ DiffRan
    /\ visionCompletion =
         Completed(<<FenceJson>> \o ObjectText("\"error\":\"IMAGES_TOO_SIMILAR\"") \o <<Fence>>)
    /\ outcome.raised = "ValueError"

\* C16: the failure names its code: IMAGES_TOO_SIMILAR and INVALID_IMAGE have
\* their own messages, every other code is reported as
\* 'LLM returned error: <code>'.
C16_FailureMessageNamesTheCode ==
    (DiffRan /\ ~visionCompletion.failed) =>
        LET recovered == Recovered(visionCompletion.text)
        IN  (recovered.ok /\ recovered.v.t = "dict" /\ "error" \in DOMAIN recovered.v.d) =>
                LET code == recovered.v.d["error"].s
                IN  /\ outcome.raised # None
                    /\ IF code = "IMAGES_TOO_SIMILAR"
                       THEN Contains("Images are too similar to detect meaningful differences",
                                     outcome.message)
                       ELSE IF code = "INVALID_IMAGE"
                       THEN Contains("Invalid or mismatched webpage screenshots", outcome.message)
                       ELSE Contains("LLM returned error: " \o code, outcome.message)

\* the chunks prose is made of: words, line breaks, and braces
ProseChunks == {Prose, WS, LBrace, RBrace}

\* prose: words and line breaks, with braces only around a remark
IsProse(text) ==
    \A i \in 1..Len(text) :
        /\ text[i] \in ProseChunks
        /\ text[i] = LBrace => (i + 2 <= Len(text) /\ text[i + 1] = Prose /\ text[i + 2] = RBrace)
        /\ text[i] = RBrace => (i > 2 /\ text[i - 1] = Prose /\ text[i - 2] = LBrace)

\* the response is the object text alone, the object text in a json fence,
\* or the object text with prose before and after it
IsWrappingOf(text, object) ==
    \/ text = object
    \/ \E before, after \in {<<>>, <<WS>>} :
           text = <<FenceJson>> \o before \o object \o after \o <<Fence>>
    \/ \E i \in 1..Len(text) :
           /\ i + Len(object) - 1 <= Len(text)
           /\ SubSeq(text, i, i + Len(object) - 1) = object
           /\ IsProse(SubSeq(text, 1, i - 1))
           /\ IsProse(SubSeq(text, i + Len(object), Len(text)))

\* C17: for every well-formed JSON object text, both agents extract the same
\* value from the bare text, from the text in a json fence and from the text
\* surrounded by prose.
C17_ExtractionIgnoresWrapping ==
    (DiffRan /\ ~visionCompletion.failed) =>
        \A object \in VisionObjectTexts :
            IsWrappingOf(visionCompletion.text, object) =>
                /\ outcome = compare_screenshots(Completed(object))
                /\ extract_analysis(visionCompletion) = extract_analysis(Completed(object))

\* the shape the orchestrator and the report rely on: the three lists of a
\* disposition partition
IsPartition(v) ==
    /\ v.t = "dict"
    /\ \A key \in {"resolved_tickets", "pending_tickets", "new_tickets"} :
           key \in DOMAIN v.d /\ v.d[key].t = "list"

\* C18: a recovered structure that lacks a required key or holds a value of
\* the wrong type is rejected with a failure, so what analyze_differences
\* returns always has the three lists; extra keys do not matter.
C18_ReturnedAnalysisHasTheThreeLists ==
    (ClassifierRan /\ outcome.raised = None) => IsPartition(outcome.value)

RunRan ==
    outcome # NoOutcome /\ visionCompletion # NoCompletion /\ textCompletion # NoCompletion

\* the vision stage returned a structure whose difference set is empty
NoDifferencesFound ==
    LET found == compare_screenshots(visionCompletion)
    IN  found.raised = None /\ found.value.t = "dict" /\ Falsy(GetDifferences(found.value))

\* the vision stage found differences and the classifier answered with a
\* partition that leaves the orchestrator nothing to write
StagesFinished ==
    LET found == compare_screenshots(visionCompletion)
    IN  /\ found.raised = None /\ found.value.t = "dict"
        /\ ~Falsy(GetDifferences(found.value))
        /\ extract_analysis(textCompletion) = Return(EmptyPartition)

\* C19: run_regression_test never raises and returns success exactly when
\* the difference set is empty (without classification or backlog access),
\* completed when differences were found and classification and
\* orchestration finished, and error, with message and kind, otherwise.
C19_RunReturnsOneOfThreeStatuses ==
    RunRan =>
        /\ outcome.raised = None
        /\ outcome.value.status \in {"success", "completed", "error"}
        /\ outcome.value.status = "success" <=> NoDifferencesFound
        /\ outcome.value.status = "success" => (modelCalls = 1 /\ backlogReads = 0)
        /\ StagesFinished => outcome.value.status = "completed"
        /\ outcome.value.status = "error" =>
               {"message", "error_type"} \subseteq DOMAIN outcome.value

\* C20: in every reachable backlog state every ticket's status is one of
\* todo, in_progress, in_review, on_hold, done, the tickets execute_actions
\* wrote or created included.
C20_EveryStatusIsValid ==
    \A i \in 1..Len(db) : db[i].status \in VALID_STATUSES

\* C21: when two runs call create_ticket at the same time, on a backlog whose
\* UI- tickets are numbered 1..n without gaps, both calls succeed, the two
\* tickets get different ids and both are stored, whatever the order of the
\* reads and the inserts.
C21_ConcurrentCreatesGetDistinctIds ==
    ((\A p \in Runs : procs[p].pc = "done") /\ CountUI(dbStart) = MaxSuffix(dbStart)) =>
        /\ \A p \in Runs : procs[p].resp.success
        /\ procs["run1"].resp.ticket.id # procs["run2"].resp.ticket.id
        /\ Len(db) = Len(dbStart) + 2

\* C22: when a run is cut short after any prefix of its mutations and the
\* same analysis is then applied again from the start, the backlog equals the
\* backlog that one uninterrupted run of that analysis leaves.
C22_RetryAfterAbortEqualsOneRun ==
    LET once == execute_actions(dbStart, idUnique, 0, <<>>, analysis).db
    IN  applyCount = 2 =>
            /\ Len(db) = Len(once)
            /\ \A i \in 1..Len(once) :
                   \A f \in (DOMAIN once[i]) \ {"created", "updated"} : db[i][f] = once[i][f]

\* C23: the extraction tries the whole text, then the interior of the first
\* json-tagged fenced block, then the span from the first opening brace to the
\* last closing brace; it returns the first of the three that parses and
\* raises the malformed-response error only when none does.
C23_ExtractionTriesThreeAttemptsInOrder ==
    LET text == textCompletion.text
        blocks == { i \in 1..Len(text) :
                      text[i] = FenceJson /\ \E j \in (i + 1)..Len(text) : IsFence(text[j]) }
        open == Least(blocks)
        close == Least({ j \in (open + 1)..Len(text) : IsFence(text[j]) })
        whole == loads(text)
        interior == IF blocks = {} THEN JSONDecodeError
                    ELSE loads(SubSeq(text, open + 1, close - 1))
        span == IF search_braces(text).found THEN loads(search_braces(text).group)
                ELSE JSONDecodeError
        first == IF whole.ok THEN whole ELSE IF interior.ok THEN interior ELSE span
    IN  (ClassifierRan /\ modelCalls = 1 /\ ~textCompletion.failed) =>
            IF first.ok THEN outcome = Return(first.v)
            ELSE /\ outcome.raised = "ValueError"
                 /\ outcome.message = "Analysis response does not contain valid JSON"

\* C24: on the same raw model text the extraction of analyze_differences and
\* compare_screenshots either both fail or both return the same structure; a
\* text carrying an error sentinel makes the classifier path fail as well.
C24_BothPathsExtractAlike ==
    LET classifier == extract_analysis(visionCompletion)
    IN  (DiffRan /\ ~visionCompletion.failed) =>
            /\ (outcome.raised = None) = (classifier.raised = None)
            /\ outcome.raised = None => outcome.value = classifier.value

\* C25: within one run of execute_actions every update of a resolved ticket
\* is issued before any update of a ticket needing work, and every such
\* update before any creation: a ticket named in both lists ends with the
\* status of the later list, and the timestamps of the rows written by the
\* run follow the order of the steps.
C25_ResolvedThenPendingThenCreated ==
    LET R == IdsOf(analysis.resolved_tickets)
        P == IdsOf(analysis.tickets_needing_work)
        old == 1..Len(dbBefore)
        written == { i \in old : db[i].updated # dbBefore[i].updated }
    IN  applyCount = 2 =>
            /\ \A i \in written : db[i].id \in P => db[i].status = "Changes Requested"
            /\ \A i, j \in written :
                   (db[i].id \in R \ P /\ db[j].id \in P) => db[i].updated < db[j].updated
            /\ \A i \in written : \A k \in (Len(dbBefore) + 1)..Len(db) :
                   db[i].updated < db[k].created

C25_Witness ==
    /\ applyCount = 2
    /\ Len(db) > Len(dbBefore)
    /\ \E i, j \in 1..Len(dbBefore) :
           /\ db[i].id \in IdsOf(analysis.resolved_tickets) \ IdsOf(analysis.tickets_needing_work)
           /\ db[j].id \in IdsOf(analysis.tickets_needing_work)
           /\ db[i].updated # dbBefore[i].updated
           /\ db[j].updated # dbBefore[j].updated

\* C26: for an entry of the tickets needing work the comment is written only
\* after the status update of that ticket succeeded: a row whose comment the
\* run changed is a row the run moved to the pending status, and the store is
\* written at most twice per successful status update of such a ticket (once
\* per resolved one), so a failed status update is followed by no write.
C26_CommentOnlyAfterStatusSucceeded ==
    LET P == IdsOf(analysis.tickets_needing_work)
        Succeeded(list) == Cardinality({ i \in 1..Len(list) : list[i].success })
    IN  /\ applyCount >= 1 =>
               \A i \in 1..Len(dbBefore) :
                   db[i].comment # dbBefore[i].comment =>
                       db[i].id \in P /\ db[i].status = "Changes Requested"
        /\ (applyCount = 1 /\ results.raised = None) =>
               now <= Succeeded(results.resolved_tickets)
                          + 2 * Succeeded(results.updated_tickets)

\* a run met a ticket needing work whose status update failed, next to one
\* whose status update succeeded
C26_Witness ==
    /\ applyCount = 1
    /\ results.raised = None
    /\ \E i, j \in 1..Len(results.updated_tickets) :
           /\ ~results.updated_tickets[i].success
           /\ results.updated_tickets[j].success
    /\ \E id \in IdsOf(analysis.tickets_needing_work) : ~HasId(db, id)

\* C27: a cached response is returned only to a call whose prompt and images
\* equal those of the call that stored it: the same prompt, the same image
\* contents, in the same baseline/updated order.
C27_CacheHitOnlyForSameInputs ==
    (cache.last.op = "complete_vision" /\ cache.last.hit) =>
        /\ cache.last.call.prompt = cache.last.stored_by.prompt
        /\ cache.last.call.contents = cache.last.stored_by.contents
        /\ cache.last.call.image_paths = cache.last.stored_by.image_paths

\* C28: a run writes nothing to the backlog unless the difference extraction
\* and the classification both returned; when either of them fails the
\* backlog is exactly what it was before the run.
C28_NoWriteUnlessBothStagesReturned ==
    LET found == compare_screenshots(visionCompletion)
        extracted == found.raised = None /\ found.value.t = "dict"
        classified == /\ extracted
                      /\ ~Falsy(GetDifferences(found.value))
                      /\ analyze_differences(dbStart, GetDifferences(found.value),
                                             textCompletion).out.raised = None
    IN  (RunRan /\ ~(extracted /\ classified)) => db = dbStart

\* the vision stage found differences and the classifier raised
C28_Witness ==
    LET found == compare_screenshots(visionCompletion)
    IN  /\ RunRan
        /\ found.raised = None /\ found.value.t = "dict"
        /\ ~Falsy(GetDifferences(found.value))
        /\ extract_analysis(textCompletion).raised # None
        /\ outcome.value.status = "error"
        /\ db = dbStart

\* C29: every entry of the new-issue list handed to execute_actions is either
\* filed as a ticket or written to the minor-issues log and counted in
\* minor_issues_logged; no entry is dropped, whatever its severity.
C29_EveryNewIssueFiledOrLogged ==
    (applyCount = 1 /\ results.raised = None) =>
        /\ (Len(db) - Len(dbBefore)) + Len(minorLog) = Len(analysis.new_issues)
        /\ Len(results.created_tickets) + results.minor_issues_logged
               = Len(analysis.new_issues)

\* C30: when the backlog cannot be read while classifying, analyze_differences
\* fails: the model is not asked to classify against the empty backlog the
\* failed read produced, and no partition comes back from which a ticket
\* could be created.
C30_UnreadableBacklogFailsClassification ==
    (ClassifierRan /\ lastOp.op = "get_all_tickets" /\ lastOp.failed /\ db # <<>>) =>
        /\ outcome.raised # None
        /\ modelCalls = 0

====
